---- MODULE Spec2Model ----
(***************************************************************************)
(* Model of streamlit_app.py: the Intraday CE-PE Signal Dashboard script.  *)
(* One run of the script is a straight-line program over the uploaded      *)
(* files; every numbered section of the script is one action.  Cells of a  *)
(* table are nullable numbers: <<>> is NaN (pandas' missing value), <<v>>  *)
(* the integer v, and <<n, d>> the rational n/d.  A correlation is NaN or  *)
(* <<num, den>>, standing for the real number num / sqrt(den).             *)
(***************************************************************************)
EXTENDS Integers, Sequences, FiniteSets, TLC

\* ------------------------------------------------------------------ bounds
MaxFiles == 2       \* files of a mixed upload (strikes, bad files, bad names)
MaxWindow == 5      \* largest slider position explored (the slider ends at 50)
WindowMin == 5      \* st.sidebar.slider("Rolling window size",5,50,20)
maxlag == 5         \* maxlag=5
SeriesLen == WindowMin + 1   \* files of a time-series upload: one row past the window

\* ------------------------------------------------------- nullable numbers
NaN == <<>>
IsNaN(x) == x = <<>>
Num(v) == <<v>>
Val(x) == x[1]

Sides == <<"CE", "PE">>
SideSet == {"CE", "PE"}

ColName(s, f) == s \o "_" \o f

Sgn(v) == IF v > 0 THEN 1 ELSE IF v < 0 THEN -1 ELSE 0

RECURSIVE SumOver(_, _)
SumOver(S, f) ==
    IF S = {} THEN 0
    ELSE LET k == CHOOSE k \in S : TRUE IN f[k] + SumOver(S \ {k}, f)

\* Mutant of Diff: the difference taken the wrong way round (diff(-1)'s sign).
DiffBackward(xs) ==
    [i \in 1..Len(xs) |->
        IF i = 1 \/ IsNaN(xs[i]) \/ IsNaN(xs[i-1]) THEN NaN
        ELSE Num(Val(xs[i-1]) - Val(xs[i]))]

\* Series.diff(): x[i] - x[i-1], NaN in row 0 and wherever an operand is NaN.
Diff(xs) ==
    [i \in 1..Len(xs) |->
        IF i = 1 \/ IsNaN(xs[i]) \/ IsNaN(xs[i-1]) THEN NaN
        ELSE Num(Val(xs[i]) - Val(xs[i-1]))]

\* Series.pct_change()*100: (x[i] / x[i-1] - 1) * 100 as the rational
\* <<numerator, denominator>>.
PctChange100(xs) ==
    [i \in 1..Len(xs) |->
        IF i = 1 \/ IsNaN(xs[i]) \/ IsNaN(xs[i-1]) THEN NaN
        ELSE LET ratio == <<Val(xs[i]), Val(xs[i-1])>>
                 less1 == <<ratio[1] - ratio[2], ratio[2]>>
             IN  <<less1[1] * 100, less1[2]>>]

\* Series.shift(k): row i holds the value of row i-k.
Shift(xs, k) ==
    [i \in 1..Len(xs) |-> IF i - k >= 1 /\ i - k <= Len(xs) THEN xs[i-k] ELSE NaN]

\* Pearson correlation of the rows of I where both series are defined:
\* cov / sqrt(var_x * var_y), NaN when a variance is zero or I is empty.
CorrOn(xs, ys, I) ==
    LET J   == {k \in I : ~IsNaN(xs[k]) /\ ~IsNaN(ys[k])}
        n   == Cardinality(J)
        sx  == SumOver(J, [k \in J |-> Val(xs[k])])
        sy  == SumOver(J, [k \in J |-> Val(ys[k])])
        sxy == SumOver(J, [k \in J |-> Val(xs[k]) * Val(ys[k])])
        sxx == SumOver(J, [k \in J |-> Val(xs[k]) * Val(xs[k])])
        syy == SumOver(J, [k \in J |-> Val(ys[k]) * Val(ys[k])])
        vx  == n * sxx - sx * sx
        vy  == n * syy - sy * sy
    IN  IF vx * vy = 0 THEN NaN ELSE <<n * sxy - sx * sy, vx * vy>>

\* Series.corr(other): pairwise-complete over the whole series.
Corr(xs, ys) == CorrOn(xs, ys, 1..Len(xs))

\* Mutant of RollingCorr: a window is reported as soon as it is full, its
\* missing rows skipped (min_periods below the window).
RollingCorrSkipNaN(xs, ys, w) ==
    [i \in 1..Len(xs) |-> IF i < w THEN NaN ELSE CorrOn(xs, ys, (i - w + 1)..i)]

\* Series.rolling(w).corr(other): min_periods defaults to the window, so a
\* row is NaN until w rows are in the window and all of them are defined.
RollingCorr(xs, ys, w) ==
    [i \in 1..Len(xs) |->
        IF i < w THEN NaN
        ELSE LET I == (i - w + 1)..i
             IN  IF \E k \in I : IsNaN(xs[k]) \/ IsNaN(ys[k]) THEN NaN
                 ELSE CorrOn(xs, ys, I)]

\* The order of two correlations, exact: r = num / sqrt(den) is compared by
\* its signed square.
CorrKeyLess(a, b) ==
    Sgn(a[1]) * a[1] * a[1] * b[2] < Sgn(b[1]) * b[1] * b[1] * a[2]

\* abs(r) and r in hundredths, rounded down: the precision of the script's
\* {:.2f} reports.
ISqrt(q) == CHOOSE k \in 0..100 : k * k <= q /\ q < (k + 1) * (k + 1)
AbsCenti(r) == ISqrt((10000 * r[1] * r[1]) \div r[2])
Centi(r) == Sgn(r[1]) * AbsCenti(r)

\* ------------------------------------------------------------------ tables
\* A table (DataFrame) is its column names, in order, and one series of
\* cells per column.
RawFields == <<"lastPrice", "openInterest", "totalTradedVolume", "strikePrice">>
RawNames ==
    [k \in 1..8 |-> ColName(Sides[((k - 1) \div 4) + 1], RawFields[((k - 1) % 4) + 1])]
IVNames == <<"CE_impliedVolatility", "PE_impliedVolatility">>

Range(q) == {q[k] : k \in 1..Len(q)}
Has(t, c) == c \in Range(t.names)
NRows(t) == Len(t.col[t.names[1]])
Drop(q, c) == SelectSeq(q, LAMBDA x : x # c)

\* Mutant of SetCol: the column is appended even when the table has it.
SetColAppend(t, c, xs) ==
    [names |-> Append(t.names, c),
     col   |-> [d \in Range(t.names) \cup {c} |-> IF d = c THEN xs ELSE t.col[d]]]

\* df[c] = xs: a new column is appended, an existing one is overwritten in place.
SetCol(t, c, xs) ==
    [names |-> IF Has(t, c) THEN t.names ELSE Append(t.names, c),
     col   |-> [d \in Range(t.names) \cup {c} |-> IF d = c THEN xs ELSE t.col[d]]]

\* ------------------------------------------------------------ the uploads
\* An uploaded file: name is the timestamp its name spells (0: the name does
\* not end in _ddmmyyyy_hhmmss), parses tells whether pd.read_csv accepts its
\* bytes, names and col are the table read_csv returns.
Bit(m, k) == (m \div (2 ^ (k - 1))) % 2

MixedRow(name, strike, c) ==
    LET v == IF name = 2 THEN 2 ELSE 1
        far == IF strike = 200 THEN 1 ELSE 0
    IN  CASE c = "CE_lastPrice" -> v + far
          [] c = "CE_openInterest" -> v
          [] c = "CE_totalTradedVolume" -> 1 + far
          [] c = "PE_lastPrice" -> 3 - v
          [] c = "PE_openInterest" -> 1 + far
          [] c = "PE_totalTradedVolume" -> v
          [] OTHER -> strike

\* A snapshot of one or two strikes, possibly lacking one raw column.
MixedFile(name, missing, nstrikes) ==
    LET cols == Drop(RawNames, missing)
    IN  [name |-> name, parses |-> TRUE, names |-> cols,
         col |-> [c \in Range(cols) |->
                    [r \in 1..nstrikes |-> Num(MixedRow(name, 100 * r, c))]]]

\* A file pd.read_csv rejects.
BadFile == [name |-> 1, parses |-> FALSE, names |-> <<>>, col |-> <<>>]

MixedFiles ==
    {BadFile} \cup
    {MixedFile(name, "none", nstrikes) : name \in 0..2, nstrikes \in 1..2} \cup
    {MixedFile(name, missing, 1) :
        name \in 0..2, missing \in {"CE_openInterest", "PE_lastPrice"}}

MixedUploads == UNION {[1..n -> MixedFiles] : n \in 0..MaxFiles}

\* The k-th five-minute snapshot of one strike; the bits of p and o spell the
\* CE price and the PE open-interest series, the PE price mirrors the CE
\* price, and the CE open interest either follows o too or rises steadily.
SeriesCell(k, p, o, trend, c) ==
    LET a == 1 + Bit(p, k)
        b == 1 + Bit(o, k)
    IN  CASE c = "CE_lastPrice" -> a
          [] c = "CE_openInterest" -> IF trend THEN k ELSE b
          [] c = "CE_totalTradedVolume" -> k + b
          [] c = "PE_lastPrice" -> 3 - a
          [] c = "PE_openInterest" -> b
          [] c = "PE_totalTradedVolume" -> k
          [] c = "CE_impliedVolatility" -> 10 + a
          [] c = "PE_impliedVolatility" -> 10 + b
          [] OTHER -> 100

SeriesFile(k, p, o, trend) ==
    LET cols == RawNames \o IVNames
    IN  [name |-> k, parses |-> TRUE, names |-> cols,
         col |-> [c \in Range(cols) |-> <<Num(SeriesCell(k, p, o, trend, c))>>]]

SeriesUploads ==
    {[k \in 1..SeriesLen |-> SeriesFile(k, 2 * p, 2 * o, trend)] :
        p \in 0..(2 ^ (SeriesLen - 1) - 1),
        o \in 0..(2 ^ (SeriesLen - 1) - 1),
        trend \in BOOLEAN}

Uploads == MixedUploads \cup SeriesUploads

\* --------------------------------------------------------------- the state
VARIABLES
    files,          \* st.file_uploader's result
    pc,             \* the section of the script that runs next
    error,          \* the exception that ended the run ("none": none)
    now,            \* the clock pd.Timestamp.utcnow() reads
    dfs,            \* the tables read so far
    data,           \* the merged table
    window,         \* the slider's value
    vol_corr,       \* Step 2: r of each side
    corr_results,   \* Step 3
    roll,           \* Step 4: plot_rollcorr's roll of each side
    cross,          \* Step 4: plot_rollcorr's crossover rows of each side
    lagdf,          \* Step 5: the (lag, corr) table of each side
    best,           \* Step 5: the row of lagdf reported for each side
    iv_corr,        \* Step 6
    ce_sent,        \* Step 7 & 8
    pe_sent,
    mood,           \* Step 10
    strength,
    bb_metric,
    summary,        \* the Summary Snapshot's Value column
    sel,            \* the strike chosen in the selectbox
    df_strike       \* the strike-specific table

vars == <<files, pc, error, now, dfs, data, window, vol_corr, corr_results, roll,
          cross, lagdf, best, iv_corr, ce_sent, pe_sent, mood, strength,
          bb_metric, summary, sel, df_strike>>

NoTable == [names |-> <<>>, col |-> <<>>]
Unset == [s \in {} |-> NaN]

Init ==
    /\ files \in Uploads
    /\ pc = "start"
    /\ error = "none"
    /\ now = 100
    /\ dfs = <<>>
    /\ data = NoTable
    /\ window = 0
    /\ vol_corr = Unset
    /\ corr_results = Unset
    /\ roll = Unset
    /\ cross = Unset
    /\ lagdf = Unset
    /\ best = Unset
    /\ iv_corr = Unset
    /\ ce_sent = NaN
    /\ pe_sent = NaN
    /\ mood = "unset"
    /\ strength = NaN
    /\ bb_metric = NaN
    /\ summary = <<>>
    /\ sel = 0
    /\ df_strike = NoTable

Results == <<vol_corr, corr_results, roll, cross, lagdf, best, iv_corr, ce_sent,
             pe_sent, mood, strength, bb_metric, summary, sel, df_strike>>

Raise(e) == pc' = "aborted" /\ error' = e

\* ----------------------------------------------------------------- loading
\* if files: ... else: st.write("Upload 5-min CSVs ...")
Start ==
    /\ pc = "start"
    /\ pc' = IF Len(files) > 0 THEN "load" ELSE "idle"
    /\ UNCHANGED <<files, error, now, dfs, data, window, Results>>

\* One iteration of "for f in files": the timestamp is read from the name,
\* or is the current time when the name does not spell one (a timezone-aware
\* value, where the parsed one is naive); pd.read_csv is outside the try.
LoadFile ==
    /\ pc = "load"
    /\ Len(dfs) < Len(files)
    /\ LET f  == files[Len(dfs) + 1]
           ts == IF f.name # 0 THEN <<"naive", f.name>> ELSE <<"utc", now>>
       IN  /\ now' = IF f.name # 0 THEN now ELSE now + 1
           /\ IF ~f.parses
              THEN /\ Raise("ParserError")
                   /\ dfs' = dfs
              ELSE /\ dfs' = Append(dfs,
                        SetCol([names |-> f.names, col |-> f.col], "timestamp",
                               [r \in 1..NRows(f) |-> ts]))
                   /\ UNCHANGED <<pc, error>>
    /\ UNCHANGED <<files, data, window, Results>>

\* pd.concat(dfs): the union of the columns in order of first appearance, the
\* rows of each table in turn, NaN where a table lacks a column.
RECURSIVE ConcatCol(_, _, _)
ConcatCol(ts, c, k) ==
    IF k > Len(ts) THEN <<>>
    ELSE (IF Has(ts[k], c) THEN ts[k].col[c] ELSE [r \in 1..NRows(ts[k]) |-> NaN])
         \o ConcatCol(ts, c, k + 1)

\* Column order of the union: first appearance, scanning the tables in order.
RECURSIVE FirstSeen(_, _)
FirstSeen(q, seen) ==
    IF q = <<>> THEN <<>>
    ELSE IF Head(q) \in seen THEN FirstSeen(Tail(q), seen)
         ELSE <<Head(q)>> \o FirstSeen(Tail(q), seen \cup {Head(q)})

RECURSIVE AllNames(_, _)
AllNames(ts, k) == IF k > Len(ts) THEN <<>> ELSE ts[k].names \o AllNames(ts, k + 1)

Concat(ts) ==
    LET names == FirstSeen(AllNames(ts, 1), {})
    IN  [names |-> names, col |-> [c \in Range(names) |-> ConcatCol(ts, c, 1)]]

\* The row orders sort_values("timestamp") may return: ascending, rows of equal
\* timestamp in any order (the default sort kind is not stable).
RECURSIVE SortOrders(_, _)
SortOrders(R, ts) ==
    IF R = {} THEN {<<>>}
    ELSE LET least == {k \in R : \A j \in R : ts[k][2] <= ts[j][2]}
         IN  UNION {{<<k>> \o o : o \in SortOrders(R \ {k}, ts)} : k \in least}

\* The rows of t in the given order, renumbered (reset_index(drop=True)).
TakeRows(t, order) ==
    [names |-> t.names,
     col |-> [c \in Range(t.names) |-> [i \in 1..Len(order) |-> t.col[c][order[i]]]]]

\* data=pd.concat(dfs).sort_values("timestamp").reset_index(drop=True)
\* Ordering a naive timestamp against a timezone-aware one raises TypeError.
Merge ==
    /\ pc = "load"
    /\ Len(dfs) = Len(files)
    /\ LET all == Concat(dfs)
           ts  == all.col["timestamp"]
       IN  IF \E i, j \in 1..Len(ts) : ts[i][1] # ts[j][1]
           THEN /\ Raise("TypeError")
                /\ data' = data
           ELSE /\ \E order \in SortOrders(1..Len(ts), ts) : data' = TakeRows(all, order)
                /\ pc' = "window"
                /\ error' = error
    /\ UNCHANGED <<files, now, dfs, window, Results>>

\* window=st.sidebar.slider("Rolling window size",5,50,20)
Slider ==
    /\ pc = "window"
    /\ \E w \in WindowMin..MaxWindow : window' = w
    /\ pc' = "step1"
    /\ UNCHANGED <<files, error, now, dfs, data, Results>>

\* ------------------------------------------------------ feature derivation
\* The assignments of "for s in ["CE","PE"]" in program order: the column
\* written, the raw column read, and the operation.
DeriveSide(s) ==
    << [out |-> ColName(s, "price_change"), in |-> ColName(s, "lastPrice"), op |-> "diff"],
       [out |-> ColName(s, "pct_return"), in |-> ColName(s, "lastPrice"), op |-> "pct"],
       [out |-> ColName(s, "vol_change"), in |-> ColName(s, "totalTradedVolume"), op |-> "diff"],
       [out |-> ColName(s, "oi_change"), in |-> ColName(s, "openInterest"), op |-> "diff"] >>

Step1Stmts == DeriveSide("CE") \o DeriveSide("PE")

\* The strike-specific loop omits pct_return.
StrikeStmts == SelectSeq(Step1Stmts, LAMBDA st : st.op = "diff")

Apply(st, xs) == IF st.op = "pct" THEN PctChange100(xs) ELSE Diff(xs)

\* Runs the assignments from the k-th on; data[c] of an absent column raises
\* KeyError, which leaves the columns written so far in place.
RECURSIVE RunStmts(_, _, _)
RunStmts(t, stmts, k) ==
    IF k > Len(stmts) THEN [table |-> t, ok |-> TRUE]
    ELSE IF ~Has(t, stmts[k].in) THEN [table |-> t, ok |-> FALSE]
    ELSE RunStmts(SetCol(t, stmts[k].out, Apply(stmts[k], t.col[stmts[k].in])), stmts, k + 1)

FeatureDerive(t) == RunStmts(t, Step1Stmts, 1)
StrikeDerive(t) == RunStmts(t, StrikeStmts, 1)

\* Step 1: Price & derived columns
Step1 ==
    /\ pc = "step1"
    /\ LET r == FeatureDerive(data)
       IN  /\ data' = r.table
           /\ IF r.ok THEN pc' = "step2" /\ error' = error ELSE Raise("KeyError")
    /\ UNCHANGED <<files, now, dfs, window, Results>>

\* ----------------------------------------------------------- correlations
Column(s, f) == data.col[ColName(s, f)]

\* Step 2: Volume confirmation
Step2 ==
    /\ pc = "step2"
    /\ vol_corr' = [s \in SideSet |-> Corr(Column(s, "price_change"), Column(s, "vol_change"))]
    /\ pc' = "step3"
    /\ UNCHANGED <<files, error, now, dfs, data, window, corr_results, roll, cross,
                   lagdf, best, iv_corr, ce_sent, pe_sent, mood, strength, bb_metric,
                   summary, sel, df_strike>>

\* Step 3: Price-OI correlation
Step3 ==
    /\ pc = "step3"
    /\ corr_results' =
          [s \in SideSet |-> Corr(Column(s, "price_change"), Column(s, "oi_change"))]
    /\ pc' = "step4"
    /\ UNCHANGED <<files, error, now, dfs, data, window, vol_corr, roll, cross,
                   lagdf, best, iv_corr, ce_sent, pe_sent, mood, strength, bb_metric,
                   summary, sel, df_strike>>

\* np.sign of a correlation: NaN stays NaN.
SignOf(r) == IF IsNaN(r) THEN NaN ELSE Num(Sgn(r[1]))

\* != of two floats: NaN differs from everything, itself included.
FloatNe(a, b) == IsNaN(a) \/ IsNaN(b) \/ a # b

\* cross=np.where(np.sign(roll)!=np.sign(roll.shift(1)))[0], rows counted from 1
Crossovers(r) ==
    {i \in 1..Len(r) : FloatNe(SignOf(r[i]), SignOf(Shift(r, 1)[i]))}

plot_rollcorr(side) ==
    RollingCorr(Column(side, "price_change"), Column(side, "oi_change"), window)

\* Step 4: Rolling correlations (CE + PE)
Step4 ==
    /\ pc = "step4"
    /\ roll' = [s \in SideSet |-> plot_rollcorr(s)]
    /\ cross' = [s \in SideSet |-> Crossovers(plot_rollcorr(s))]
    /\ pc' = "step5"
    /\ UNCHANGED <<files, error, now, dfs, data, window, vol_corr, corr_results,
                   lagdf, best, iv_corr, ce_sent, pe_sent, mood, strength, bb_metric,
                   summary, sel, df_strike>>

\* ------------------------------------------------------------------ lag test
LagRange == 1..maxlag

\* lags: the correlation of the price change with the open interest shifted
\* by each lag of range(1,maxlag+1)
LagTable(s) ==
    [lag \in LagRange |-> Corr(Column(s, "price_change"), Shift(Column(s, "openInterest"), lag))]

\* Series.idxmax(): the first label holding the largest non-NaN value; 0
\* stands for "all values are NaN", which .loc cannot look up.
IdxMax(t) ==
    LET defined == {l \in DOMAIN t : ~IsNaN(t[l])}
        top     == {l \in defined : \A m \in defined : ~CorrKeyLess(t[l], t[m])}
    IN  IF defined = {} THEN 0 ELSE CHOOSE l \in top : \A m \in top : l <= m

\* The sides of Sides[k..] in turn; the first side whose lags are all NaN
\* raises and ends the loop.
RECURSIVE LagLoop(_, _, _)
LagLoop(k, tables, bests) ==
    IF k > Len(Sides) THEN [lagdf |-> tables, best |-> bests, ok |-> TRUE]
    ELSE LET s == Sides[k]
             t == LagTable(s)
             with == [x \in DOMAIN tables \cup {s} |-> IF x = s THEN t ELSE tables[x]]
         IN  IF IdxMax(t) = 0 THEN [lagdf |-> with, best |-> bests, ok |-> FALSE]
             ELSE LagLoop(k + 1, with,
                      [x \in DOMAIN bests \cup {s} |->
                          IF x = s THEN <<IdxMax(t), t[IdxMax(t)]>> ELSE bests[x]])

\* Step 5: Lag test
Step5 ==
    /\ pc = "step5"
    /\ LET r == LagLoop(1, Unset, Unset)
       IN  /\ lagdf' = r.lagdf
           /\ best' = r.best
           /\ IF r.ok THEN pc' = "step6" /\ error' = error ELSE Raise("IdxmaxError")
    /\ UNCHANGED <<files, now, dfs, data, window, vol_corr, corr_results, roll, cross,
                   iv_corr, ce_sent, pe_sent, mood, strength, bb_metric, summary, sel,
                   df_strike>>

\* Step 6: IV correlation, for the sides whose IV column is in the table
Step6 ==
    /\ pc = "step6"
    /\ iv_corr' =
          [s \in {x \in SideSet : Has(data, ColName(x, "impliedVolatility"))} |->
              Corr(Column(s, "price_change"), Diff(Column(s, "impliedVolatility")))]
    /\ pc' = "step7"
    /\ UNCHANGED <<files, error, now, dfs, data, window, vol_corr, corr_results, roll,
                   cross, lagdf, best, ce_sent, pe_sent, mood, strength, bb_metric,
                   summary, sel, df_strike>>

\* Step 7 & 8: Same-side sentiment
Step7 ==
    /\ pc = "step7"
    /\ ce_sent' = Corr(Column("CE", "lastPrice"), Column("CE", "openInterest"))
    /\ pe_sent' = Corr(Column("PE", "lastPrice"), Column("PE", "openInterest"))
    /\ pc' = "step9"
    /\ UNCHANGED <<files, error, now, dfs, data, window, vol_corr, corr_results, roll,
                   cross, lagdf, best, iv_corr, mood, strength, bb_metric, summary, sel,
                   df_strike>>

\* (CE_openInterest-PE_openInterest)/(CE_openInterest+PE_openInterest), row by row
OIImbalance(ce, pe) ==
    [i \in 1..Len(ce) |->
        IF IsNaN(ce[i]) \/ IsNaN(pe[i]) \/ Val(ce[i]) + Val(pe[i]) = 0 THEN NaN
        ELSE <<Val(ce[i]) - Val(pe[i]), Val(ce[i]) + Val(pe[i])>>]

\* Step 9: OI imbalance
Step9 ==
    /\ pc = "step9"
    /\ data' = SetCol(data, "OI_imb",
                      OIImbalance(Column("CE", "openInterest"), Column("PE", "openInterest")))
    /\ pc' = "step10"
    /\ UNCHANGED <<files, error, now, dfs, window, Results>>

\* --------------------------------------------------- sentiment and strength
\* x > 0 of a cell: False for NaN.
Positive(x) == ~IsNaN(x) /\ Val(x) > 0

Last(xs) == xs[Len(xs)]

\* ce_up / pe_up: the latest row's price change and OI change are both > 0
Up(s) == Positive(Last(Column(s, "price_change"))) /\ Positive(Last(Column(s, "oi_change")))

Mood ==
    IF Up("CE") /\ ~Up("PE") THEN "Bullish"
    ELSE IF Up("PE") /\ ~Up("CE") THEN "Bearish"
    ELSE "Neutral"

\* (abs(corr CE)+abs(corr PE)+abs(ce_sent)+abs(pe_sent))/4 in hundredths; NaN
\* as soon as one term is NaN.
Strength ==
    LET terms == <<corr_results["CE"], corr_results["PE"], ce_sent, pe_sent>>
    IN  IF \E k \in 1..4 : IsNaN(terms[k]) THEN NaN
        ELSE Num(SumOver(1..4, [k \in 1..4 |-> AbsCenti(terms[k])]) \div 4)

\* ce_sent - pe_sent + data["OI_imb"].iloc[-1] in hundredths
BullBear ==
    LET imb == Last(data.col["OI_imb"])
    IN  IF IsNaN(ce_sent) \/ IsNaN(pe_sent) \/ IsNaN(imb) THEN NaN
        ELSE Num(Centi(ce_sent) - Centi(pe_sent) + ((100 * imb[1]) \div imb[2]))

\* Step 10: Sentiment + strength
Step10 ==
    /\ pc = "step10"
    /\ mood' = Mood
    /\ strength' = Strength
    /\ bb_metric' = BullBear
    /\ pc' = "summary"
    /\ UNCHANGED <<files, error, now, dfs, data, window, vol_corr, corr_results, roll,
                   cross, lagdf, best, iv_corr, ce_sent, pe_sent, summary, sel, df_strike>>

\* Summary table: the Value column, in the order of the Metric column
Summary ==
    /\ pc = "summary"
    /\ summary' = <<corr_results["CE"], corr_results["PE"], ce_sent, pe_sent,
                    Last(data.col["OI_imb"]), strength, bb_metric>>
    /\ pc' = "strike"
    /\ UNCHANGED <<files, error, now, dfs, data, window, vol_corr, corr_results, roll,
                   cross, lagdf, best, iv_corr, ce_sent, pe_sent, mood, strength,
                   bb_metric, sel, df_strike>>

\* ------------------------------------------------------- strike-specific view
\* strikes=sorted(data["CE_strikePrice"].unique())
Strikes == {Val(x) : x \in Range(data.col["CE_strikePrice"])}

\* The rows of t holding strike k, in the order of t.
RECURSIVE RowsOf(_, _, _)
RowsOf(xs, k, i) ==
    IF i > Len(xs) THEN <<>>
    ELSE (IF xs[i] = Num(k) THEN <<i>> ELSE <<>>) \o RowsOf(xs, k, i + 1)

\* data[data["CE_strikePrice"]==sel].reset_index(drop=True)
StrikeTable(t, k) == TakeRows(t, RowsOf(t.col["CE_strikePrice"], k, 1))

\* The selectbox and the "Analyze Selected Strike" button; pressed, the rows of
\* the strike are copied and three of the derived columns computed again on
\* the copy.
Strike ==
    /\ pc = "strike"
    /\ \E k \in Strikes, pressed \in BOOLEAN :
          /\ sel' = k
          /\ df_strike' = IF pressed THEN StrikeDerive(StrikeTable(data, k)).table
                          ELSE df_strike
    /\ pc' = "done"
    /\ UNCHANGED <<files, error, now, dfs, data, window, vol_corr, corr_results, roll,
                   cross, lagdf, best, iv_corr, ce_sent, pe_sent, mood, strength,
                   bb_metric, summary>>

Next ==
    \/ Start
    \/ LoadFile
    \/ Merge
    \/ Slider
    \/ Step1
    \/ Step2
    \/ Step3
    \/ Step4
    \/ Step5
    \/ Step6
    \/ Step7
    \/ Step9
    \/ Step10
    \/ Summary
    \/ Strike

Spec == Init /\ [][Next]_vars

\* ================================================================== claims
\* Positions of the script after a given section has run to its end.
AfterStep1 == {"step2", "step3", "step4", "step5", "step6", "step7", "step9",
               "step10", "summary", "strike", "done"}
AfterStep4 == AfterStep1 \ {"step2", "step3", "step4"}
AfterStep5 == AfterStep4 \ {"step5"}
AfterStep10 == {"summary", "strike", "done"}

\* C1. Signal classification: BUY_CE when strength > 0.2, BUY_PE when
\* strength < -0.2, NEUTRAL otherwise (the script has no mode flag and no
\* regime, so only the non-gated rule applies); the script's label is read
\* as Bullish = BUY_CE, Bearish = BUY_PE, Neutral = NEUTRAL.
BaseSignal(x) == IF x > 20 THEN "BUY_CE" ELSE IF x < -20 THEN "BUY_PE" ELSE "NEUTRAL"
LabelSignal(m) ==
    IF m = "Bullish" THEN "BUY_CE" ELSE IF m = "Bearish" THEN "BUY_PE" ELSE "NEUTRAL"
C1_SignalFromStrength ==
    (pc \in AfterStep10 /\ ~IsNaN(strength)) => LabelSignal(mood) = BaseSignal(Val(strength))

Required(s) == {ColName(s, "lastPrice"), ColName(s, "openInterest"), ColName(s, "totalTradedVolume")}

\* C2. A file that fails parsing or feature derivation never aborts the run:
\* as long as one file of the batch is sound the run is not ended by a file's
\* failure, and the merged table holds the rows of the sound files only.
Sound(f) == f.parses /\ Required("CE") \cup Required("PE") \subseteq Range(f.names)
SoundRows == SumOver({k \in 1..Len(files) : Sound(files[k])},
                     [k \in 1..Len(files) |-> IF Sound(files[k]) THEN NRows(files[k]) ELSE 0])
C2_FileFailureNeverAborts ==
    (\E k \in 1..Len(files) : Sound(files[k])) =>
        /\ ~(pc = "aborted" /\ error \in {"ParserError", "KeyError"})
        /\ pc \in {"window", "step1"} \cup AfterStep1 => NRows(data) = SoundRows

\* C3. When a required raw column of side S is absent, feature derivation
\* does not raise, appends no derived column of S and appends the derived
\* columns of the other side.
Step1Ran == pc \in AfterStep1 \/ (pc = "aborted" /\ error \in {"KeyError", "IdxmaxError"})
DerivedOf(s) == {DeriveSide(s)[k].out : k \in 1..4}
Other(s) == IF s = "CE" THEN "PE" ELSE "CE"
C3_MissingColumnSkipsSide ==
    \A s \in SideSet :
        (/\ Step1Ran
         /\ ~(Required(s) \subseteq Range(data.names))
         /\ Required(Other(s)) \subseteq Range(data.names))
        => /\ error # "KeyError"
           /\ DerivedOf(s) \cap Range(data.names) = {}
           /\ DerivedOf(Other(s)) \subseteq Range(data.names)

\* C4. The composite strength score is never null.
C4_StrengthNeverNull == pc \in AfterStep10 => ~IsNaN(strength)

\* C5. Row i is reported as a sign flip only if rows i and i-1 both hold a
\* non-null rolling correlation and their signs differ.
C5_FlipNeedsTwoSigns ==
    pc \in AfterStep4 =>
        \A s \in SideSet : \A i \in cross[s] :
            /\ i > 1
            /\ ~IsNaN(roll[s][i]) /\ ~IsNaN(roll[s][i-1])
            /\ Sgn(roll[s][i][1]) # Sgn(roll[s][i-1][1])

\* The rows of I on which xs is defined hold one value only.
Constant(xs, I) == \A j, k \in I : xs[j] = xs[k]
Defined(xs, I) == \A k \in I : ~IsNaN(xs[k])

\* Whether the rolling correlation of side s must be defined in row i (rows
\* counted from 1): its window is full, without a missing value, and neither
\* series is constant on it.
WindowGood(s, i) ==
    LET I == (i - window + 1)..i
        x == Column(s, "price_change")
        y == Column(s, "oi_change")
    IN  /\ Defined(x, I) /\ Defined(y, I)
        /\ ~Constant(x, I) /\ ~Constant(y, I)

\* C6 as stated. For a table of at least W rows the rolling correlation is
\* aligned with the table, its first W-1 rows are null and the W-th row is
\* non-null unless its window (the first W rows, where defined) has zero
\* variance.
C6_LeadingNullsWMinus1 ==
    (pc \in AfterStep4 /\ NRows(data) >= window) =>
        \A s \in SideSet :
            /\ Len(roll[s]) = NRows(data)
            /\ \A i \in 1..(window - 1) : IsNaN(roll[s][i])
            /\ (~Constant(Column(s, "price_change"), 2..window)
                /\ ~Constant(Column(s, "oi_change"), 2..window)
                /\ Defined(Column(s, "price_change"), 2..window)
                /\ Defined(Column(s, "oi_change"), 2..window))
               => ~IsNaN(roll[s][window])

\* C6 amended. The series is aligned with the table and has W leading nulls,
\* one more than the window needs, because row 0 of both inputs (first
\* differences) is null; every later row is non-null exactly when its window
\* holds no missing value and no constant series.
C6_LeadingNullsW ==
    pc \in AfterStep4 =>
        \A s \in SideSet :
            /\ Len(roll[s]) = NRows(data)
            /\ \A i \in 1..NRows(data) :
                  IF i <= window THEN IsNaN(roll[s][i])
                  ELSE ~IsNaN(roll[s][i]) <=> WindowGood(s, i)

C6_Witness ==
    /\ pc = "step5"
    /\ NRows(data) > window
    /\ \E s \in SideSet : ~IsNaN(roll[s][window + 1])

\* out is the first difference of the raw column in: null in row 0 and
\* wherever an operand is missing, raw[i] - raw[i-1] elsewhere.
FirstDifference(t, out, in) ==
    /\ Has(t, out)
    /\ Len(t.col[out]) = Len(t.col[in])
    /\ \A i \in 1..Len(t.col[in]) :
          IF i = 1 \/ IsNaN(t.col[in][i]) \/ IsNaN(t.col[in][i-1])
          THEN IsNaN(t.col[out][i])
          ELSE t.col[out][i] = Num(Val(t.col[in][i]) - Val(t.col[in][i-1]))

\* out is the percent return of the price column in: null in row 0, and
\* (price[i] - price[i-1]) / price[i-1] * 100 elsewhere.
PercentReturn(t, out, in) ==
    /\ Has(t, out)
    /\ Len(t.col[out]) = Len(t.col[in])
    /\ \A i \in 1..Len(t.col[in]) :
          IF i = 1 \/ IsNaN(t.col[in][i]) \/ IsNaN(t.col[in][i-1])
          THEN IsNaN(t.col[out][i])
          ELSE /\ Len(t.col[out][i]) = 2
               /\ t.col[out][i][2] # 0
               /\ t.col[out][i][1] * Val(t.col[in][i-1]) =
                     (Val(t.col[in][i]) - Val(t.col[in][i-1])) * 100 * t.col[out][i][2]

DifferencesOf(t, s) ==
    /\ FirstDifference(t, ColName(s, "price_change"), ColName(s, "lastPrice"))
    /\ FirstDifference(t, ColName(s, "vol_change"), ColName(s, "totalTradedVolume"))
    /\ FirstDifference(t, ColName(s, "oi_change"), ColName(s, "openInterest"))

\* The columns of the merged table that no uploaded file held.
Added == Range(data.names) \ (Range(Concat(dfs).names) \cup {"OI_imb"})

\* C7 as stated. Feature derivation appends five derived columns per side
\* (price change, percent return, OI change, volume change, IV change), each
\* null in row 0 and the first difference (percent change) of its raw column
\* elsewhere.
C7_FiveDerivedColumns ==
    pc \in AfterStep1 =>
        /\ Cardinality(Added) = 2 * 5
        /\ \A s \in SideSet :
              /\ DifferencesOf(data, s)
              /\ PercentReturn(data, ColName(s, "pct_return"), ColName(s, "lastPrice"))

\* C7 amended. Feature derivation appends four derived columns per side
\* (price change, percent return, volume change, OI change) and no IV change,
\* each null in row 0 and the first difference (percent change) of its raw
\* column elsewhere; the strike-specific derivation recomputes the three
\* first differences on the rows of the chosen strike.
C7_FourDerivedColumns ==
    /\ pc \in AfterStep1 =>
          /\ Added = DerivedOf("CE") \cup DerivedOf("PE")
          /\ \A s \in SideSet :
                /\ DifferencesOf(data, s)
                /\ PercentReturn(data, ColName(s, "pct_return"), ColName(s, "lastPrice"))
    /\ (pc = "done" /\ df_strike # NoTable) =>
          \A s \in SideSet : DifferencesOf(df_strike, s)

C7_Witness ==
    /\ pc = "done"
    /\ df_strike # NoTable
    /\ Has(data, "CE_impliedVolatility")
    /\ \E i \in 2..NRows(df_strike) :
          /\ Column("CE", "lastPrice")[i] # Column("CE", "lastPrice")[i-1]
          /\ Column("PE", "openInterest")[i] # Column("PE", "openInterest")[i-1]

\* C8. The lag test evaluates every lag of -3..+3 and reports the smallest lag
\* holding the largest non-null correlation; when all lags are null the best
\* lag is 0 (flagged low-confidence) and the run goes on.
Step5Ran == pc \in AfterStep5 \/ (pc = "aborted" /\ error = "IdxmaxError")
AllNull(t) == \A l \in DOMAIN t : IsNaN(t[l])
C8_LagSearch ==
    Step5Ran =>
        /\ error # "IdxmaxError"
        /\ \A s \in SideSet :
              /\ DOMAIN lagdf[s] = -3..3
              /\ IF AllNull(lagdf[s]) THEN best[s][1] = 0
                 ELSE /\ ~IsNaN(lagdf[s][best[s][1]])
                      /\ \A l \in DOMAIN lagdf[s] :
                            ~IsNaN(lagdf[s][l]) =>
                               /\ ~CorrKeyLess(lagdf[s][best[s][1]], lagdf[s][l])
                               /\ (l < best[s][1] =>
                                      CorrKeyLess(lagdf[s][l], lagdf[s][best[s][1]]))

\* Rows of a table are in strictly ascending timestamp order.
StrictlyOrdered(t) ==
    \A i \in 1..(NRows(t) - 1) : t.col["timestamp"][i][2] < t.col["timestamp"][i+1][2]

\* C9. The table on which deltas and correlations are computed holds rows of
\* a single strike, strictly ordered by timestamp.
C9_SingleStrikeStrictOrder ==
    /\ pc \in AfterStep1 => (Cardinality(Strikes) = 1 /\ StrictlyOrdered(data))
    /\ (pc = "done" /\ df_strike # NoTable) => StrictlyOrdered(df_strike)

\* C10. Feature derivation is idempotent: applied to a table that already
\* holds the derived columns it adds no column, changes no raw column and
\* leaves the derived columns as they are.  The script applies it a second
\* time in the strike-specific view, to a copy of the rows of one strike: the
\* copy keeps the columns and the raw values of these rows, and is the merged
\* table again when all rows are of that strike.
C10_DerivationIdempotent ==
    /\ pc \in AfterStep1 => FeatureDerive(data) = [table |-> data, ok |-> TRUE]
    /\ (pc = "done" /\ df_strike # NoTable) =>
          /\ df_strike.names = data.names
          /\ \A c \in Range(data.names) \ (DerivedOf("CE") \cup DerivedOf("PE")) :
                df_strike.col[c] = StrikeTable(data, sel).col[c]
          /\ FeatureDerive(df_strike).table.names = df_strike.names
          /\ Strikes = {sel} => df_strike = data

C10_Witness ==
    /\ pc = "done"
    /\ df_strike # NoTable
    /\ Strikes = {sel}
    /\ \E i \in 2..NRows(data) : Positive(Column("CE", "price_change")[i])

====
